---- MODULE Spec2Model ----
(***************************************************************************)
(* A model of src/peps_to_rdf.py: the two text parsers, the schema         *)
(* builder, the instance graph builder and the conversion driver.          *)
(*                                                                         *)
(* A Python str is a sequence of one-character strings.  An RDF term is a  *)
(* sequence of strings whose first element tags its kind, a triple is a    *)
(* 3-tuple of terms and a graph is a set of triples (rdflib's Graph.add    *)
(* of a triple that is already there changes nothing).                     *)
(***************************************************************************)
EXTENDS Integers, Sequences, FiniteSets, Bags, TLC

VARIABLES
    text,                \* SpecParse: the string handed to the parsers
    resolution_data,     \* SpecParse: result of parse_sphinx_resolution(text)
    post_history_data,   \* SpecParse: result of parse_sphinx_post_history(text)
    called,              \* SpecParse: the parsers that have been applied to text
    json_data,           \* json_data[r]: the records of run r, in iteration order
    schema_graph,        \* schema_graph[r]: the schema graph of run r
    instance_data_graph, \* instance_data_graph[r]: the instance graph of run r
    pc,                  \* pc[r]: where run r of convert_peps_to_rdf stands
    idx,                 \* idx[r]: records of json_data[r] whose loop body has ended
    err,                 \* err[r]: the exception that ended run r, or "none"
    bnodes,              \* number of BNode() identifiers issued so far
    returned             \* returned[r]: what convert_peps_to_rdf returned in run r

vars == <<text, resolution_data, post_history_data, called, json_data, schema_graph,
          instance_data_graph, pc, idx, err, bnodes, returned>>

parse_vars == <<text, resolution_data, post_history_data, called>>
conv_vars == <<json_data, schema_graph, instance_data_graph, pc, idx, err, bnodes,
               returned>>

----------------------------------------------------------------------------
(* Bounds *)

\* Most tokens concatenated into one parser input.
MaxTokens == 3
\* Most records in the input feed.
MaxRecords == 2

----------------------------------------------------------------------------
(* Characters and Python str operations *)

Digits == {"0", "1", "2", "3", "4", "5", "6", "7", "8", "9"}

Lower == {"a", "b", "c", "d", "e", "f", "g", "h", "i", "j", "k", "l", "m",
          "n", "o", "p", "q", "r", "s", "t", "u", "v", "w", "x", "y", "z"}

Upper == {"A", "B", "C", "D", "E", "F", "G", "H", "I", "J", "K", "L", "M",
          "N", "O", "P", "Q", "R", "S", "T", "U", "V", "W", "X", "Y", "Z"}

\* \s of the re module and the characters str.strip() removes (ASCII part).
Whitespace == {" ", "\t", "\n", "\r", "\f"}

\* \d of the re module (ASCII part).
IsDigit(c) == c \in Digits

\* \w of the re module (ASCII part): letters, digits and the underscore.
IsWord(c) == c \in Digits \cup Lower \cup Upper \cup {"_"}

\* The backquote character (a TLA+ string cannot hold it).
Backtick == "BACKQUOTE"

\* \S of the re module.
IsNonSpace(c) == c \notin Whitespace

\* s[i..j] (1-based, inclusive), empty when j < i.
Slice(s, i, j) == IF j < i THEN << >> ELSE SubSeq(s, i, j)

\* Whether the characters of lit stand in s from position i on.
HasAt(s, i, lit) ==
    /\ i >= 1
    /\ i + Len(lit) - 1 <= Len(s)
    /\ \A k \in 1..Len(lit) : s[i + k - 1] = lit[k]

\* str.strip(): leading and trailing whitespace removed.
RECURSIVE LStrip(_)
LStrip(s) == IF s # << >> /\ Head(s) \in Whitespace THEN LStrip(Tail(s)) ELSE s

RECURSIVE RStrip(_)
RStrip(s) ==
    IF s # << >> /\ s[Len(s)] \in Whitespace
    THEN RStrip(SubSeq(s, 1, Len(s) - 1))
    ELSE s

Strip(s) == RStrip(LStrip(s))

\* str.split(sep) for a non-empty sep: the pieces between the occurrences of
\* sep, found left to right; always at least one piece.
RECURSIVE SplitFrom(_, _, _, _)
SplitFrom(s, sep, start, i) ==
    IF i > Len(s) THEN << Slice(s, start, Len(s)) >>
    ELSE IF HasAt(s, i, sep)
         THEN << Slice(s, start, i - 1) >>
              \o SplitFrom(s, sep, i + Len(sep), i + Len(sep))
         ELSE SplitFrom(s, sep, start, i + 1)

Split(s, sep) == SplitFrom(s, sep, 1, 1)

\* str(n) for a natural number n.
DigitChar(d) ==
    CASE d = 0 -> "0" [] d = 1 -> "1" [] d = 2 -> "2" [] d = 3 -> "3"
      [] d = 4 -> "4" [] d = 5 -> "5" [] d = 6 -> "6" [] d = 7 -> "7"
      [] d = 8 -> "8" [] d = 9 -> "9"

DigitVal(c) ==
    CASE c = "0" -> 0 [] c = "1" -> 1 [] c = "2" -> 2 [] c = "3" -> 3
      [] c = "4" -> 4 [] c = "5" -> 5 [] c = "6" -> 6 [] c = "7" -> 7
      [] c = "8" -> 8 [] c = "9" -> 9

RECURSIVE IntToStr(_)
IntToStr(n) ==
    IF n < 10 THEN << DigitChar(n) >>
    ELSE IntToStr(n \div 10) \o << DigitChar(n % 10) >>

\* The elements of a sequence.
Range(s) == {s[i] : i \in 1..Len(s)}

----------------------------------------------------------------------------
(* The regular expressions of peps_to_rdf.py *)

\* (\d{2}-\w{3}-\d{4}) at position i: the 11 characters s[i..i+10].
DateAt(s, i) ==
    /\ i >= 1
    /\ i + 10 <= Len(s)
    /\ IsDigit(s[i]) /\ IsDigit(s[i + 1])
    /\ s[i + 2] = "-"
    /\ IsWord(s[i + 3]) /\ IsWord(s[i + 4]) /\ IsWord(s[i + 5])
    /\ s[i + 6] = "-"
    /\ IsDigit(s[i + 7]) /\ IsDigit(s[i + 8])
    /\ IsDigit(s[i + 9]) /\ IsDigit(s[i + 10])

\* The first position >= i that holds ">", or Len(s) + 1: where [^>]+ stops.
RECURSIVE UrlStop(_, _)
UrlStop(s, i) ==
    IF i > Len(s) \/ s[i] = ">" THEN i ELSE UrlStop(s, i + 1)

\* BACKTICK_HYPERLINK_REGEX at position i:
\*   BACKQUOTE (\d{2}-\w{3}-\d{4}) SPACE <([^>]+)> BACKQUOTE __
\* [^>]+ cannot give back a character (the next one must be ">"), so the
\* match is decided by the first ">" after the "<".
HyperlinkAt(s, i) ==
    /\ HasAt(s, i, << Backtick >>)
    /\ DateAt(s, i + 1)
    /\ HasAt(s, i + 12, << " ", "<" >>)
    /\ UrlStop(s, i + 14) > i + 14
    /\ HasAt(s, UrlStop(s, i + 14), << ">", Backtick, "_", "_" >>)

\* The last position of the match of BACKTICK_HYPERLINK_REGEX at i.
HyperlinkEnd(s, i) == UrlStop(s, i + 14) + 3

\* A group(1) that starts one character early, at the backquote.
HyperlinkDateEarly(s, i) == SubSeq(s, i, i + 10)

\* group(1) and group(2) of the match at i.
HyperlinkDate(s, i) == SubSeq(s, i + 1, i + 11)
HyperlinkUrl(s, i) == SubSeq(s, i + 14, UrlStop(s, i + 14) - 1)

\* A match of URL_REGEX that knows the http scheme only.
UrlMatchHttpOnly(s) ==
    /\ HasAt(s, 1, << "h", "t", "t", "p", ":", "/", "/" >>)
    /\ Len(s) >= 8 /\ IsNonSpace(s[8])

\* re.match(URL_REGEX, s): https?://\S+ at the start of s.
UrlMatch(s) ==
    \/ /\ HasAt(s, 1, << "h", "t", "t", "p", ":", "/", "/" >>)
       /\ Len(s) >= 8 /\ IsNonSpace(s[8])
    \/ /\ HasAt(s, 1, << "h", "t", "t", "p", "s", ":", "/", "/" >>)
       /\ Len(s) >= 9 /\ IsNonSpace(s[9])

\* re.findall(BACKTICK_HYPERLINK_REGEX, s): the (date, url) pairs of the
\* non-overlapping matches, scanning left to right from position i.
RECURSIVE FindHyperlinks(_, _)
FindHyperlinks(s, i) ==
    IF i > Len(s) THEN << >>
    ELSE IF HyperlinkAt(s, i)
         THEN << << HyperlinkDate(s, i), HyperlinkUrl(s, i) >> >>
              \o FindHyperlinks(s, HyperlinkEnd(s, i) + 1)
         ELSE FindHyperlinks(s, i + 1)

\* A search for the date pattern that stops at its first match.
FindDatesFirstOnly(s, i) ==
    LET at == {k \in i..Len(s) : DateAt(s, k)} IN
    IF at = {} THEN << >>
    ELSE LET k == CHOOSE j \in at : \A l \in at : j <= l IN
         << SubSeq(s, k, k + 10) >>

\* re.findall(DATE_ONLY_REGEX, s), scanning from position i.
RECURSIVE FindDates(_, _)
FindDates(s, i) ==
    IF i > Len(s) THEN << >>
    ELSE IF DateAt(s, i)
         THEN << SubSeq(s, i, i + 10) >> \o FindDates(s, i + 11)
         ELSE FindDates(s, i + 1)

----------------------------------------------------------------------------
(* The text field parsers *)

\* Python's None as a parser result: a dict with neither "date" nor "url".
None == [none |-> << >>]

\* A resolution parser that raises on a string of neither shape instead of
\* returning None.
parse_sphinx_resolution_raising(resolution) ==
    IF HyperlinkAt(resolution, 1)
    THEN [date |-> HyperlinkDate(resolution, 1),
          url |-> HyperlinkUrl(resolution, 1)]
    ELSE IF UrlMatch(resolution)
         THEN [url |-> resolution]
         ELSE [raised |-> << "V", "a", "l", "u", "e", "E", "r", "r", "o", "r" >>]

\* A resolution parser whose bare-URL branch returns what URL_REGEX has
\* matched, the characters up to the first whitespace, instead of the string.
parse_sphinx_resolution_matched(resolution) ==
    IF HyperlinkAt(resolution, 1)
    THEN [date |-> HyperlinkDate(resolution, 1),
          url |-> HyperlinkUrl(resolution, 1)]
    ELSE IF UrlMatch(resolution)
         THEN LET spaces == {k \in 1..Len(resolution) : resolution[k] \in Whitespace}
                  stop == IF spaces = {} THEN Len(resolution) + 1
                          ELSE CHOOSE k \in spaces : \A l \in spaces : k <= l
              IN  [url |-> SubSeq(resolution, 1, stop - 1)]
         ELSE None

\* parse_sphinx_resolution(resolution): {"date", "url"}, {"url"} or None.
parse_sphinx_resolution(resolution) ==
    IF HyperlinkAt(resolution, 1)
    THEN [date |-> HyperlinkDate(resolution, 1),
          url |-> HyperlinkUrl(resolution, 1)]
    ELSE IF UrlMatch(resolution)
         THEN [url |-> resolution]
         ELSE None

\* An entry of a hyperlink that keeps the date and loses the url.
HyperlinkEntryDateOnly(m) == [date |-> m[1]]

\* One dict of the first return of parse_sphinx_post_history.
HyperlinkEntry(m) == [date |-> m[1], url |-> m[2]]

\* A post-history parser that returns the entries of the hyperlinks and,
\* after them, an entry for every date of the string.
parse_sphinx_post_history_both(post_history) ==
    LET matches == FindHyperlinks(post_history, 1)
        dates == FindDates(post_history, 1)
    IN  [k \in 1..Len(matches) |-> HyperlinkEntry(matches[k])]
        \o [k \in 1..Len(dates) |-> [date |-> dates[k]]]

\* parse_sphinx_post_history(post_history): a list of dicts.
parse_sphinx_post_history(post_history) ==
    LET matches == FindHyperlinks(post_history, 1) IN
    IF matches # << >>
    THEN [k \in 1..Len(matches) |-> HyperlinkEntry(matches[k])]
    ELSE LET dates == FindDates(post_history, 1) IN
         [k \in 1..Len(dates) |-> [date |-> dates[k]]]

----------------------------------------------------------------------------
(* datetime.strptime(s, "%d-%b-%Y") and datetime.isoformat() *)

LowerSeq == << "a", "b", "c", "d", "e", "f", "g", "h", "i", "j", "k", "l", "m",
               "n", "o", "p", "q", "r", "s", "t", "u", "v", "w", "x", "y", "z" >>

UpperSeq == << "A", "B", "C", "D", "E", "F", "G", "H", "I", "J", "K", "L", "M",
               "N", "O", "P", "Q", "R", "S", "T", "U", "V", "W", "X", "Y", "Z" >>

\* str.lower() of one character: _strptime matches with re.IGNORECASE.
ToLower(c) ==
    IF c \in Upper
    THEN LowerSeq[CHOOSE i \in 1..26 : UpperSeq[i] = c]
    ELSE c

\* The month abbreviations of the C locale, lower-cased, as %b knows them.
MonthAbbr == << << "j", "a", "n" >>, << "f", "e", "b" >>, << "m", "a", "r" >>,
                << "a", "p", "r" >>, << "m", "a", "y" >>, << "j", "u", "n" >>,
                << "j", "u", "l" >>, << "a", "u", "g" >>, << "s", "e", "p" >>,
                << "o", "c", "t" >>, << "n", "o", "v" >>, << "d", "e", "c" >> >>

\* The month (1..12) whose abbreviation is s[i..i+2], or 0.
MonthAt(s, i) ==
    IF i + 2 > Len(s) THEN 0
    ELSE LET abbr == << ToLower(s[i]), ToLower(s[i + 1]), ToLower(s[i + 2]) >> IN
         IF \E m \in 1..12 : MonthAbbr[m] = abbr
         THEN CHOOSE m \in 1..12 : MonthAbbr[m] = abbr
         ELSE 0

\* -%b-%Y from position i to the end of s: "-", a month name, "-", \d\d\d\d
\* and nothing after it ("unconverted data remains" is a ValueError too).
TailMatches(s, i) ==
    /\ Len(s) = i + 8
    /\ s[i] = "-"
    /\ MonthAt(s, i + 1) # 0
    /\ s[i + 4] = "-"
    /\ \A k \in (i + 5)..(i + 8) : IsDigit(s[k])

\* %d is 3[0-1]|[1-2]\d|0[1-9]|[1-9]| [1-9], tried in that order; the width
\* of the day that lets the rest of the format match, or 0.
DayWidth(s) ==
    IF Len(s) < 2 THEN 0
    ELSE IF /\ \/ s[1] = "3" /\ s[2] \in {"0", "1"}
               \/ s[1] \in {"1", "2"} /\ IsDigit(s[2])
               \/ s[1] = "0" /\ s[2] \in Digits \ {"0"}
            /\ TailMatches(s, 3)
         THEN 2
    ELSE IF s[1] \in Digits \ {"0"} /\ TailMatches(s, 2)
         THEN 1
    ELSE IF s[1] = " " /\ s[2] \in Digits \ {"0"} /\ TailMatches(s, 3)
         THEN 2
    ELSE 0

IsLeap(y) == (y % 4 = 0 /\ y % 100 # 0) \/ y % 400 = 0

DaysInMonth(y, m) ==
    IF m = 2 THEN (IF IsLeap(y) THEN 29 ELSE 28)
    ELSE IF m \in {4, 6, 9, 11} THEN 30 ELSE 31

\* datetime.strptime(s, "%d-%b-%Y"): [ok |-> TRUE, y, m, d], or ok = FALSE
\* where strptime raises ValueError (no match of the format, or a date that
\* datetime() rejects: year 0, a day the month does not have).
strptime(s) ==
    LET w == DayWidth(s) IN
    IF w = 0 THEN [ok |-> FALSE, y |-> 0, m |-> 0, d |-> 0]
    ELSE LET d == IF w = 1 THEN DigitVal(s[1])
                  ELSE (IF s[1] = " " THEN 0 ELSE DigitVal(s[1])) * 10
                       + DigitVal(s[2])
             m == MonthAt(s, w + 2)
             y == DigitVal(s[w + 6]) * 1000 + DigitVal(s[w + 7]) * 100
                  + DigitVal(s[w + 8]) * 10 + DigitVal(s[w + 9])
         IN  IF y >= 1 /\ d <= DaysInMonth(y, m)
             THEN [ok |-> TRUE, y |-> y, m |-> m, d |-> d]
             ELSE [ok |-> FALSE, y |-> 0, m |-> 0, d |-> 0]

\* n as decimal digits, zero-padded to width w.
RECURSIVE Pad(_, _)
Pad(n, w) == IF w = 0 THEN << >> ELSE Pad(n \div 10, w - 1) \o << DigitChar(n % 10) >>

\* datetime.isoformat() of a strptime result: YYYY-MM-DDT00:00:00.
isoformat(dt) ==
    Pad(dt.y, 4) \o << "-" >> \o Pad(dt.m, 2) \o << "-" >> \o Pad(dt.d, 2)
    \o << "T", "0", "0", ":", "0", "0", ":", "0", "0" >>

----------------------------------------------------------------------------
(* RDF terms *)

\* schema_namespace.name / schema_namespace[name]: a term of SCHEMA_NS.
SCHEMA_NS(name) == << "peps:", name >>

\* instance_namespace[local]: a term of DEFAULT_NS with the local part local.
DEFAULT_NS(local) == << "default:" >> \o local

RDF_type == << "rdf:", "type" >>
RDFS_label == << "rdfs:", "label" >>
RDFS_comment == << "rdfs:", "comment" >>
RDFS_domain == << "rdfs:", "domain" >>
RDFS_range == << "rdfs:", "range" >>
OWL_Class == << "owl:", "Class" >>
OWL_DatatypeProperty == << "owl:", "DatatypeProperty" >>
OWL_ObjectProperty == << "owl:", "ObjectProperty" >>

\* XSD.name.
XSD(name) == << "xsd:", name >>

\* A range test that takes every range for a datatype of XSD.
IsXSDAlways(term) == term = term

\* rng.startswith(str(XSD)).
IsXSD(term) == term[1] = "xsd:"

\* Literal(lexical, datatype=...): a literal is its lexical form and its
\* datatype ("" for a plain literal).
Literal(lexical, datatype) == << "literal", datatype >> \o lexical

\* Literal(None): rdflib takes str(None) as the lexical form.
NoneLexical == << "N", "o", "n", "e" >>

\* The n-th identifier BNode() returns; no identifier is returned twice.
BNode(n) == << "_:" >> \o IntToStr(n)

IsBNode(term) == term[1] = "_:"

\* The characters urllib.parse.quote_plus leaves as they are.
QuoteSafe == Lower \cup Upper \cup Digits \cup {"_", ".", "-", "~"}

\* urllib.parse.quote_plus of one character: a space becomes "+", an unsafe
\* character its %XX escape.
QuoteChar(c) ==
    IF c = " " THEN << "+" >>
    ELSE IF c \in QuoteSafe THEN << c >>
    ELSE CASE c = "+" -> << "%", "2", "B" >>
           [] c = "," -> << "%", "2", "C" >>
           [] c = "%" -> << "%", "2", "5" >>
           [] c = "/" -> << "%", "2", "F" >>
           [] c = ":" -> << "%", "3", "A" >>
           [] c = "<" -> << "%", "3", "C" >>
           [] c = ">" -> << "%", "3", "E" >>
           [] c = Backtick -> << "%", "6", "0" >>

\* urllib.parse.quote_plus(s).
RECURSIVE quote_plus(_)
quote_plus(s) == IF s = << >> THEN << >> ELSE QuoteChar(Head(s)) \o quote_plus(Tail(s))

\* instance_namespace[f"pep-{str(x)}"] for the characters of str(x).
PepUri(id) == DEFAULT_NS(<< "p", "e", "p", "-" >> \o id)

\* instance_namespace[f"author/{urllib.parse.quote_plus(author)}"].
AuthorUri(author) ==
    DEFAULT_NS(<< "a", "u", "t", "h", "o", "r", "/" >> \o quote_plus(author))

----------------------------------------------------------------------------
(* The schema builder *)

\* define_classes(schema_graph, schema_namespace): the graph after the call.
\* The text of a label or comment of the schema is one element.
define_classes(g) ==
    g \cup {
        << SCHEMA_NS("PythonEnhancementProposal"), RDF_type, OWL_Class >>,
        << SCHEMA_NS("PythonEnhancementProposal"), RDFS_label,
           Literal(<< "Python Enhancement Proposal" >>, "") >>,
        << SCHEMA_NS("Author"), RDF_type, OWL_Class >>,
        << SCHEMA_NS("Author"), RDFS_label, Literal(<< "PEP Author" >>, "") >>,
        << SCHEMA_NS("Resolution"), RDF_type, OWL_Class >>,
        << SCHEMA_NS("Resolution"), RDFS_label, Literal(<< "PEP Resolution" >>, "") >>,
        << SCHEMA_NS("Post"), RDF_type, OWL_Class >>,
        << SCHEMA_NS("Post"), RDFS_label, Literal(<< "PEP Post" >>, "") >> }

\* One tuple of property_definitions: (prop, label, comment, domain, rng).
PropDef(prop, label, comment, domain, rng) ==
    [prop |-> SCHEMA_NS(prop), label |-> label, comment |-> comment,
     domain |-> domain, rng |-> rng]

PEP == SCHEMA_NS("PythonEnhancementProposal")

property_definitions == <<
    PropDef("id", "id of the PEP", "the identifier of the PEP.", PEP, XSD("int")),
    PropDef("url", "URL of the PEP", "the URL of the PEP.", PEP, XSD("anyURI")),
    PropDef("title", "title of the PEP", "the title of the PEP.", PEP, XSD("string")),
    PropDef("hasAuthor", "author of the PEP", "An author of the PEP.", PEP,
            SCHEMA_NS("Author")),
    PropDef("dateCreated", "creation date", "The date the PEP was created", PEP,
            XSD("date")),
    PropDef("status", "PEP status", "The current status of the PEP", PEP,
            XSD("string")),
    PropDef("type", "PEP type", "The type of the PEP", PEP, XSD("string")),
    PropDef("pythonVersion", "Python version",
            "The Python version this PEP is targeted for", PEP, XSD("string")),
    PropDef("requires", "requires PEP", "Other PEPs that this PEP depends on",
            PEP, PEP),
    PropDef("replaces", "replaces PEP", "The PEP that this PEP replaces", PEP, PEP),
    PropDef("supersededBy", "superseded by PEP", "The PEP that supersedes this PEP",
            PEP, PEP),
    PropDef("discussionsTo", "discussions to",
            "The mailing list or URL where the PEP is being discussed", PEP,
            XSD("string")),
    PropDef("topic", "topic", "The topic area of the PEP", PEP, XSD("string")),
    PropDef("hasResolution", "has a resolution", "Resolution for this PEP", PEP,
            SCHEMA_NS("Resolution")),
    PropDef("hasPost", "has post associated with PEP",
            "History of significant posts related to the PEP", PEP,
            SCHEMA_NS("Post")),
    PropDef("resolutionUrl", "resolution URL", "The URL of the resolution",
            SCHEMA_NS("Resolution"), XSD("anyURI")),
    PropDef("resolutionDate", "resolution date", "The date of the resolution",
            SCHEMA_NS("Resolution"), XSD("date")),
    PropDef("postUrl", "post URL", "The URL of the post", SCHEMA_NS("Post"),
            XSD("anyURI")),
    PropDef("postDate", "post date", "The date of the post", SCHEMA_NS("Post"),
            XSD("date")) >>

\* The body of the loop of define_properties for one tuple: the five triples.
PropertyTriples(p) ==
    { << p.prop, RDF_type,
         IF IsXSD(p.rng) THEN OWL_DatatypeProperty ELSE OWL_ObjectProperty >>,
      << p.prop, RDFS_label, Literal(<< p.label >>, "") >>,
      << p.prop, RDFS_comment, Literal(<< p.comment >>, "") >>,
      << p.prop, RDFS_domain, p.domain >>,
      << p.prop, RDFS_range, p.rng >> }

\* define_properties(schema_graph, schema_namespace): the graph after the call.
define_properties(g) ==
    g \cup UNION {PropertyTriples(property_definitions[k]) :
                    k \in 1..Len(property_definitions)}

----------------------------------------------------------------------------
(* The instance graph builder *)

\* A key the record does not have, and a key whose value is JSON null.
Absent == << "<absent>" >>
Null == << "<null>" >>

\* pep_data.get(key) is truthy: the key is there and its value is neither
\* None nor the empty string.
Truthy(v) == v \notin {Absent, Null, << >>}

\* The state of create_instance_data inside one run: the instance graph g,
\* the number n of BNode() identifiers issued, and the exception e that ended
\* the call ("none" while it runs).  A step after an exception does nothing.
Builder(g, n, e) == [g |-> g, n |-> n, e |-> e]

\* A pep_uri made from the title of the record instead of its number.
RecordUriByTitle(pep_data) == PepUri(pep_data.title)

\* pep_uri of a record (line 232).
RecordUri(pep_data) == PepUri(IntToStr(pep_data.number))

\* Lines 234-257: type, label, title, id, url and status of the proposal.
AddIdentity(b, pep_data) ==
    LET pep_uri == RecordUri(pep_data) IN
    IF b.e # "none" THEN b
    ELSE Builder(b.g \cup {
            << pep_uri, RDF_type, SCHEMA_NS("PythonEnhancementProposal") >>,
            << pep_uri, RDFS_label, Literal(pep_data.title, "") >>,
            << pep_uri, SCHEMA_NS("title"), Literal(pep_data.title, "") >>,
            << pep_uri, SCHEMA_NS("id"), Literal(IntToStr(pep_data.number), "int") >>,
            << pep_uri, SCHEMA_NS("url"), Literal(pep_data.url, "anyURI") >>,
            << pep_uri, SCHEMA_NS("status"), Literal(pep_data.status, "") >> },
         b.n, "none")

\* Lines 258-264: pep_data["python_version"] is read without a test: a
\* missing key raises KeyError, and None becomes the literal "None".
AddPythonVersion(b, pep_data) ==
    LET pep_uri == RecordUri(pep_data) IN
    IF b.e # "none" THEN b
    ELSE IF pep_data.python_version = Absent THEN Builder(b.g, b.n, "KeyError")
    ELSE Builder(b.g \cup {
            << pep_uri, SCHEMA_NS("pythonVersion"),
               Literal(IF pep_data.python_version = Null THEN NoneLexical
                       ELSE pep_data.python_version, "") >> },
         b.n, "none")

\* Lines 265-267: the type of the proposal.
AddType(b, pep_data) ==
    IF b.e # "none" THEN b
    ELSE Builder(b.g \cup {
            << RecordUri(pep_data), SCHEMA_NS("type"), Literal(pep_data.type, "") >> },
         b.n, "none")

\* The triples of an author without the type assertion.
AuthorTriplesUntyped(pep_uri, author) ==
    { << pep_uri, SCHEMA_NS("hasAuthor"), AuthorUri(author) >>,
      << AuthorUri(author), RDFS_label, Literal(author, "") >> }

\* Lines 274-278: the three triples of one author of the proposal.
AuthorTriples(pep_uri, author) ==
    { << pep_uri, SCHEMA_NS("hasAuthor"), AuthorUri(author) >>,
      << AuthorUri(author), RDF_type, SCHEMA_NS("Author") >>,
      << AuthorUri(author), RDFS_label, Literal(author, "") >> }

\* The authors split on "," alone, the way topic, replaces and requires are.
AddAuthorsSplitOnComma(b, pep_data) ==
    IF b.e # "none" \/ ~Truthy(pep_data.authors) THEN b
    ELSE LET names == Split(pep_data.authors, << "," >>) IN
         Builder(b.g \cup UNION {AuthorTriples(RecordUri(pep_data), names[k]) :
                                   k \in 1..Len(names)},
                 b.n, "none")

\* Lines 269-278: the authors, split on ", ".
AddAuthors(b, pep_data) ==
    IF b.e # "none" \/ ~Truthy(pep_data.authors) THEN b
    ELSE LET names == Split(pep_data.authors, << ",", " " >>) IN
         Builder(b.g \cup UNION {AuthorTriples(RecordUri(pep_data), names[k]) :
                                   k \in 1..Len(names)},
                 b.n, "none")

\* Lines 280-285: one topic triple per stripped piece of the topic field.
AddTopic(b, pep_data) ==
    IF b.e # "none" \/ ~Truthy(pep_data.topic) THEN b
    ELSE LET pieces == Split(pep_data.topic, << "," >>) IN
         Builder(b.g \cup {<< RecordUri(pep_data), SCHEMA_NS("topic"),
                              Literal(Strip(pieces[k]), "") >> :
                              k \in 1..Len(pieces)},
                 b.n, "none")

\* A creation date that is left out when it cannot be parsed.
AddCreatedLenient(b, pep_data) ==
    IF b.e # "none" \/ ~Truthy(pep_data.created) THEN b
    ELSE LET created_date == strptime(pep_data.created) IN
         IF ~created_date.ok THEN b
         ELSE Builder(b.g \cup {<< RecordUri(pep_data), SCHEMA_NS("dateCreated"),
                                  Literal(isoformat(created_date), "date") >>},
                      b.n, "none")

\* Lines 287-295: the creation date; strptime raises ValueError.
AddCreated(b, pep_data) ==
    IF b.e # "none" \/ ~Truthy(pep_data.created) THEN b
    ELSE LET created_date == strptime(pep_data.created) IN
         IF ~created_date.ok THEN Builder(b.g, b.n, "ValueError")
         ELSE Builder(b.g \cup {<< RecordUri(pep_data), SCHEMA_NS("dateCreated"),
                                  Literal(isoformat(created_date), "date") >>},
                      b.n, "none")

\* Lines 297-304: the link to the superseding proposal.
AddSupersededBy(b, pep_data) ==
    IF b.e # "none" \/ ~Truthy(pep_data.superseded_by) THEN b
    ELSE Builder(b.g \cup {<< RecordUri(pep_data), SCHEMA_NS("supersededBy"),
                              PepUri(pep_data.superseded_by) >>},
                 b.n, "none")

\* The links of the pieces as they are split, not stripped.
LinkTriplesUnstripped(pep_uri, property, field) ==
    LET peps == Split(field, << "," >>) IN
    {<< pep_uri, SCHEMA_NS(property), PepUri(peps[k]) >> : k \in 1..Len(peps)}

\* Lines 307-315 and 318-326: one link per stripped piece of a field that
\* holds comma-separated proposal numbers.
LinkTriples(pep_uri, property, field) ==
    LET peps == Split(field, << "," >>) IN
    {<< pep_uri, SCHEMA_NS(property), PepUri(Strip(peps[k])) >> : k \in 1..Len(peps)}

\* Links only to the proposals the graph already holds when the record is
\* processed.
AddReplacesExisting(b, pep_data) ==
    IF b.e # "none" \/ ~Truthy(pep_data.replaces) THEN b
    ELSE Builder(b.g \cup {t \in LinkTriples(RecordUri(pep_data), "replaces",
                                             pep_data.replaces) :
                             << t[3], RDF_type, SCHEMA_NS("PythonEnhancementProposal") >>
                                 \in b.g},
                 b.n, "none")

\* Lines 306-315: the replaced proposals.
AddReplaces(b, pep_data) ==
    IF b.e # "none" \/ ~Truthy(pep_data.replaces) THEN b
    ELSE Builder(b.g \cup LinkTriples(RecordUri(pep_data), "replaces", pep_data.replaces),
                 b.n, "none")

\* Lines 317-326: the required proposals.
AddRequires(b, pep_data) ==
    IF b.e # "none" \/ ~Truthy(pep_data.requires) THEN b
    ELSE Builder(b.g \cup LinkTriples(RecordUri(pep_data), "requires", pep_data.requires),
                 b.n, "none")

\* Lines 328-335: where the proposal is discussed.
AddDiscussionsTo(b, pep_data) ==
    IF b.e # "none" \/ ~Truthy(pep_data.discussions_to) THEN b
    ELSE Builder(b.g \cup {<< RecordUri(pep_data), SCHEMA_NS("discussionsTo"),
                              Literal(pep_data.discussions_to, "") >>},
                 b.n, "none")

\* A resolution step that does not test what the parser has returned.
AddResolutionAlways(b, pep_data) ==
    IF b.e # "none" \/ ~Truthy(pep_data.resolution) THEN b
    ELSE LET resolution == parse_sphinx_resolution(pep_data.resolution)
             resolution_node == BNode(b.n + 1)
             linked == b.g \cup {
                 << RecordUri(pep_data), SCHEMA_NS("hasResolution"), resolution_node >>,
                 << resolution_node, RDF_type, SCHEMA_NS("Resolution") >> }
             with_url ==
                 IF "url" \in DOMAIN resolution
                 THEN linked \cup {<< resolution_node, SCHEMA_NS("resolutionUrl"),
                                      Literal(resolution.url, "anyURI") >>}
                 ELSE linked
         IN  IF "date" \notin DOMAIN resolution
             THEN Builder(with_url, b.n + 1, "none")
             ELSE LET resolution_date == strptime(resolution.date) IN
                  IF ~resolution_date.ok
                  THEN Builder(with_url, b.n + 1, "ValueError")
                  ELSE Builder(with_url \cup {
                           << resolution_node, SCHEMA_NS("resolutionDate"),
                              Literal(isoformat(resolution_date), "date") >>},
                         b.n + 1, "none")

\* Lines 337-367: the Resolution node, on a fresh BNode; the date is parsed
\* after the link, the type and the url have been added.
AddResolution(b, pep_data) ==
    IF b.e # "none" \/ ~Truthy(pep_data.resolution) THEN b
    ELSE LET resolution == parse_sphinx_resolution(pep_data.resolution)
             resolution_node == BNode(b.n + 1)
             linked == b.g \cup {
                 << RecordUri(pep_data), SCHEMA_NS("hasResolution"), resolution_node >>,
                 << resolution_node, RDF_type, SCHEMA_NS("Resolution") >> }
             with_url ==
                 IF "url" \in DOMAIN resolution
                 THEN linked \cup {<< resolution_node, SCHEMA_NS("resolutionUrl"),
                                      Literal(resolution.url, "anyURI") >>}
                 ELSE linked
         IN  IF resolution = None THEN b
             ELSE IF "date" \notin DOMAIN resolution
                  THEN Builder(with_url, b.n + 1, "none")
             ELSE LET resolution_date == strptime(resolution.date) IN
                  IF ~resolution_date.ok
                  THEN Builder(with_url, b.n + 1, "ValueError")
                  ELSE Builder(with_url \cup {
                           << resolution_node, SCHEMA_NS("resolutionDate"),
                              Literal(isoformat(resolution_date), "date") >>},
                         b.n + 1, "none")

\* A post step that does not ask for a new node: the posts of a record are
\* all written on the node issued next.
AddPostSharedNode(b, pep_data, post) ==
    IF b.e # "none" THEN b
    ELSE LET post_node == BNode(b.n + 1)
             linked == b.g \cup {
                 << RecordUri(pep_data), SCHEMA_NS("hasPost"), post_node >>,
                 << post_node, RDF_type, SCHEMA_NS("Post") >> }
             post_date == strptime(post.date)
         IN  IF ~post_date.ok THEN Builder(linked, b.n, "ValueError")
             ELSE Builder(
                    linked
                    \cup {<< post_node, SCHEMA_NS("postDate"),
                             Literal(isoformat(post_date), "date") >>}
                    \cup (IF "url" \in DOMAIN post
                          THEN {<< post_node, SCHEMA_NS("postUrl"),
                                   Literal(post.url, "anyURI") >>}
                          ELSE {}),
                    b.n, "none")

\* Lines 372-390: the body of the loop over the posts, for one post.
AddPost(b, pep_data, post) ==
    IF b.e # "none" THEN b
    ELSE LET post_node == BNode(b.n + 1)
             linked == b.g \cup {
                 << RecordUri(pep_data), SCHEMA_NS("hasPost"), post_node >>,
                 << post_node, RDF_type, SCHEMA_NS("Post") >> }
             post_date == strptime(post.date)
         IN  IF ~post_date.ok THEN Builder(linked, b.n + 1, "ValueError")
             ELSE Builder(
                    linked
                    \cup {<< post_node, SCHEMA_NS("postDate"),
                             Literal(isoformat(post_date), "date") >>}
                    \cup (IF "url" \in DOMAIN post
                          THEN {<< post_node, SCHEMA_NS("postUrl"),
                                   Literal(post.url, "anyURI") >>}
                          ELSE {}),
                    b.n + 1, "none")

\* The loop of line 371 from the k-th post on.
RECURSIVE AddPosts(_, _, _, _)
AddPosts(b, pep_data, posts, k) ==
    IF k > Len(posts) THEN b
    ELSE AddPosts(AddPost(b, pep_data, posts[k]), pep_data, posts, k + 1)

\* Lines 369-390: one Post node per entry of the parsed post history.
AddPostHistory(b, pep_data) ==
    IF b.e # "none" \/ ~Truthy(pep_data.post_history) THEN b
    ELSE AddPosts(b, pep_data, parse_sphinx_post_history(pep_data.post_history), 1)

\* The body of the loop of create_instance_data for one record, lines 232-390.
LoopBody(b, pep_data) ==
    AddPostHistory(
    AddResolution(
    AddDiscussionsTo(
    AddRequires(
    AddReplaces(
    AddSupersededBy(
    AddCreated(
    AddTopic(
    AddAuthors(
    AddType(
    AddPythonVersion(
    AddIdentity(b, pep_data), pep_data), pep_data), pep_data), pep_data),
    pep_data), pep_data), pep_data), pep_data), pep_data), pep_data), pep_data)

----------------------------------------------------------------------------
(* Inputs *)

\* The text of a sequence of strings, one after the other.
RECURSIVE Concat(_)
Concat(ss) == IF ss = << >> THEN << >> ELSE Head(ss) \o Concat(Tail(ss))

D1 == << "0", "1", "-", "J", "a", "n", "-", "2", "0", "2", "0" >>
D2 == << "0", "2", "-", "F", "e", "b", "-", "2", "0", "2", "1" >>
\* The shape of a date with a word that is no month, and a day no month has.
DX == << "0", "1", "-", "X", "y", "z", "-", "2", "0", "2", "0" >>
D31Feb == << "3", "1", "-", "F", "e", "b", "-", "2", "0", "2", "0" >>
InvalidDate == << "i", "n", "v", "a", "l", "i", "d", "-", "d", "a", "t", "e" >>
U1 == << "h", "t", "t", "p", ":", "/", "/", "x" >>
U2 == << "h", "t", "t", "p", "s", ":", "/", "/", "y" >>
See == << "s", "e", "e" >>
CommaSpace == << ",", " " >>

\* A Sphinx hyperlink, BACKQUOTE date <url> BACKQUOTE __, and the same date
\* and url without the backquotes and underscores.
Hyperlink(date, url) ==
    << Backtick >> \o date \o << " ", "<" >> \o url \o << ">", Backtick, "_", "_" >>
Plain(date, url) == date \o << " ", "<" >> \o url \o << ">" >>

\* The pieces the inputs of the parsers are made of.
Tokens ==
    { Hyperlink(D1, U1), Hyperlink(D2, U2), Plain(D1, U1), Plain(D2, U2),
      << Backtick >> \o D1 \o << " ", "<" >>, D1, D2, U1, U2, CommaSpace, See }

ParserInputs ==
    {Concat(ts) : ts \in UNION {[1..n -> Tokens] : n \in 0..MaxTokens}}

\* A record with the required keys and no optional one but python_version;
\* its number is set when it is put into a feed.
Base ==
    [number |-> 0,
     title |-> << "T" >>,
     url |-> << "h", "t", "t", "p", "s", ":", "/", "/", "p" >>,
     status |-> << "F", "i", "n", "a", "l" >>,
     type |-> << "I" >>,
     python_version |-> << "3", ".", "8" >>,
     authors |-> Absent, topic |-> Absent, created |-> Absent,
     superseded_by |-> Absent, replaces |-> Absent, requires |-> Absent,
     discussions_to |-> Absent, resolution |-> Absent, post_history |-> Absent]

\* The values each optional key is given, one key at a time.
FieldSamples ==
    [python_version |-> {Absent, Null},
     authors |-> { << "A", " ", "B", ",", " ", "C" >>, << "C", ",", " ", "C" >>,
                   << "C" >> },
     topic |-> { << "a", ",", " ", ",", "b" >>, << >> },
     created |-> {D1, InvalidDate},
     superseded_by |-> { << "2" >> },
     replaces |-> { << "2", ",", " ", "1", "0" >> },
     requires |-> { << "2", ",", "2" >> },
     discussions_to |-> { See, Null },
     resolution |-> { Hyperlink(D1, U1), Plain(D1, U1), U1, Hyperlink(DX, U1) },
     post_history |-> { Hyperlink(D1, U1) \o CommaSpace \o Hyperlink(D2, U2),
                        Hyperlink(D1, U1) \o Hyperlink(D1, U1) \o CommaSpace \o D2,
                        D1 \o CommaSpace \o D1,
                        D31Feb }]

Templates ==
    {Base} \cup {[Base EXCEPT ![f] = v] : <<f, v>> \in
                   UNION {{f} \X FieldSamples[f] : f \in DOMAIN FieldSamples}}

\* The records of the runs that are compared with each other.
TwiceTemplates ==
    { Base,
      [Base EXCEPT !.authors = << "A", " ", "B", ",", " ", "C" >>],
      [Base EXCEPT !.authors = << "C" >>],
      [Base EXCEPT !.created = InvalidDate],
      [Base EXCEPT !.replaces = << "2", ",", " ", "1", "0" >>],
      [Base EXCEPT !.resolution = Hyperlink(D1, U1)],
      [Base EXCEPT !.post_history = Hyperlink(D1, U1) \o CommaSpace \o Hyperlink(D2, U2)],
      [Base EXCEPT !.post_history = D1 \o CommaSpace \o D1] }

\* The feed: the records of peps.json, which is keyed by the number of the
\* proposal, so that the i-th record has the number i and no number recurs.
Feeds(templates) ==
    {[i \in 1..n |-> [tpl[i] EXCEPT !.number = i]] :
       <<n, tpl>> \in UNION {{n} \X [1..n -> templates] : n \in 0..MaxRecords}}

\* The orders in which the records of a feed can be iterated.
Orders(feed) ==
    {[i \in 1..Len(feed) |-> feed[p[i]]] :
       p \in {q \in [1..Len(feed) -> 1..Len(feed)] :
                \A i, j \in 1..Len(feed) : q[i] = q[j] => i = j}}

----------------------------------------------------------------------------
(* The parsers applied to one text *)

ParseIdle ==
    /\ text = << >>
    /\ resolution_data = None
    /\ post_history_data = << >>
    /\ called = {}

InitParse ==
    /\ text \in ParserInputs
    /\ resolution_data = None
    /\ post_history_data = << >>
    /\ called = {}
    /\ json_data = [r \in {1, 2} |-> << >>]
    /\ schema_graph = [r \in {1, 2} |-> {}]
    /\ instance_data_graph = [r \in {1, 2} |-> {}]
    /\ pc = [r \in {1, 2} |-> "start"]
    /\ idx = [r \in {1, 2} |-> 0]
    /\ err = [r \in {1, 2} |-> "none"]
    /\ bnodes = 0
    /\ returned = [r \in {1, 2} |-> << >>]

CallParseResolution ==
    /\ "resolution" \notin called
    /\ resolution_data' = parse_sphinx_resolution(text)
    /\ called' = called \cup {"resolution"}
    /\ UNCHANGED <<text, post_history_data>>
    /\ UNCHANGED conv_vars

CallParsePostHistory ==
    /\ "post_history" \notin called
    /\ post_history_data' = parse_sphinx_post_history(text)
    /\ called' = called \cup {"post_history"}
    /\ UNCHANGED <<text, resolution_data>>
    /\ UNCHANGED conv_vars

NextParse == CallParseResolution \/ CallParsePostHistory

SpecParse == InitParse /\ [][NextParse]_vars

----------------------------------------------------------------------------
(* The conversion driver *)

Runs == {1, 2}

\* What a caller of convert_peps_to_rdf holds before the call has returned,
\* and for good when the call has raised instead.
NoResult == << >>

\* The state before convert_peps_to_rdf is called, for a given feed.
InitFeed(feed) ==
    /\ ParseIdle
    /\ json_data = [r \in Runs |-> IF r = 1 THEN feed ELSE << >>]
    /\ schema_graph = [r \in Runs |-> {}]
    /\ instance_data_graph = [r \in Runs |-> {}]
    /\ pc = [r \in Runs |-> "start"]
    /\ idx = [r \in Runs |-> 0]
    /\ err = [r \in Runs |-> "none"]
    /\ bnodes = 0
    /\ returned = [r \in Runs |-> NoResult]

Init == \E feed \in Feeds(Templates) : InitFeed(feed)

InitTwice == \E feed \in Feeds(TwiceTemplates) : InitFeed(feed)

\* A run that goes on with the instance graph of the first run instead of a
\* new Graph().
BeginSharedGraph(r) ==
    /\ pc[r] = "start"
    /\ r = 2 => pc[1] \in {"done", "aborted"}
    /\ \E feed \in (IF r = 1 THEN {json_data[1]} ELSE Orders(json_data[1])) :
         json_data' = [json_data EXCEPT ![r] = feed]
    /\ schema_graph' = [schema_graph EXCEPT ![r] = {}]
    /\ instance_data_graph' = [instance_data_graph EXCEPT ![r] = instance_data_graph[1]]
    /\ pc' = [pc EXCEPT ![r] = "classes"]
    /\ UNCHANGED <<idx, err, bnodes, returned>>
    /\ UNCHANGED parse_vars

\* Lines 412-419: run r fetches the feed and makes its two empty graphs.  A
\* second run starts when the first has ended and is given the same records,
\* in any order.
Begin(r) ==
    /\ pc[r] = "start"
    /\ r = 2 => pc[1] \in {"done", "aborted"}
    /\ \E feed \in (IF r = 1 THEN {json_data[1]} ELSE Orders(json_data[1])) :
         json_data' = [json_data EXCEPT ![r] = feed]
    /\ schema_graph' = [schema_graph EXCEPT ![r] = {}]
    /\ instance_data_graph' = [instance_data_graph EXCEPT ![r] = {}]
    /\ pc' = [pc EXCEPT ![r] = "classes"]
    /\ UNCHANGED <<idx, err, bnodes, returned>>
    /\ UNCHANGED parse_vars

\* A class definition step that is handed the instance graph as well.
DefineClassesIntoInstance(r) ==
    /\ pc[r] = "classes"
    /\ schema_graph' = [schema_graph EXCEPT ![r] = define_classes(schema_graph[r])]
    /\ instance_data_graph' =
           [instance_data_graph EXCEPT ![r] = define_classes(instance_data_graph[r])]
    /\ pc' = [pc EXCEPT ![r] = "properties"]
    /\ UNCHANGED <<json_data, idx, err, bnodes, returned>>
    /\ UNCHANGED parse_vars

\* Line 421.
DefineClasses(r) ==
    /\ pc[r] = "classes"
    /\ schema_graph' = [schema_graph EXCEPT ![r] = define_classes(schema_graph[r])]
    /\ pc' = [pc EXCEPT ![r] = "properties"]
    /\ UNCHANGED <<json_data, instance_data_graph, idx, err, bnodes, returned>>
    /\ UNCHANGED parse_vars

\* Line 422.
DefineProperties(r) ==
    /\ pc[r] = "properties"
    /\ schema_graph' = [schema_graph EXCEPT ![r] = define_properties(schema_graph[r])]
    /\ pc' = [pc EXCEPT ![r] = "instances"]
    /\ UNCHANGED <<json_data, instance_data_graph, idx, err, bnodes, returned>>
    /\ UNCHANGED parse_vars

\* A loop that catches the exception of a record, keeps what the record has
\* added so far and goes on with the next record.
ProcessRecordSkipping(r) ==
    /\ pc[r] = "instances"
    /\ idx[r] < Len(json_data[r])
    /\ \E b \in {LoopBody(Builder(instance_data_graph[r], bnodes, "none"),
                         json_data[r][idx[r] + 1])} :
           /\ instance_data_graph' = [instance_data_graph EXCEPT ![r] = b.g]
           /\ bnodes' = b.n
           /\ err' = [err EXCEPT ![r] = b.e]
           /\ idx' = [idx EXCEPT ![r] = @ + 1]
           /\ pc' = pc
    /\ UNCHANGED <<json_data, schema_graph, returned>>
    /\ UNCHANGED parse_vars

\* Line 424, one iteration of the loop of create_instance_data: the body for
\* the next record.  An exception leaves the graph as it was when it was
\* raised and ends the run.
ProcessRecord(r) ==
    /\ pc[r] = "instances"
    /\ idx[r] < Len(json_data[r])
    /\ \E b \in {LoopBody(Builder(instance_data_graph[r], bnodes, "none"),
                         json_data[r][idx[r] + 1])} :
           /\ instance_data_graph' = [instance_data_graph EXCEPT ![r] = b.g]
           /\ bnodes' = b.n
           /\ err' = [err EXCEPT ![r] = b.e]
           /\ idx' = [idx EXCEPT ![r] = IF b.e = "none" THEN @ + 1 ELSE @]
           /\ pc' = [pc EXCEPT ![r] = IF b.e = "none" THEN @ ELSE "aborted"]
    /\ UNCHANGED <<json_data, schema_graph, returned>>
    /\ UNCHANGED parse_vars

\* Line 426: the loop has ended and both graphs are returned, as the tuple
\* main.py takes apart at line 18 and serializes at lines 20-21.
Return(r) ==
    /\ pc[r] = "instances"
    /\ idx[r] = Len(json_data[r])
    /\ returned' = [returned EXCEPT ![r] = << schema_graph[r], instance_data_graph[r] >>]
    /\ pc' = [pc EXCEPT ![r] = "done"]
    /\ UNCHANGED <<json_data, schema_graph, instance_data_graph, idx, err, bnodes>>
    /\ UNCHANGED parse_vars

Run(r) ==
    \/ Begin(r)
    \/ DefineClasses(r)
    \/ DefineProperties(r)
    \/ ProcessRecord(r)
    \/ Return(r)

\* One conversion.
Next == Run(1)

Spec == Init /\ [][Next]_vars

\* Two conversions of the same records, one after the other.
NextTwice == Run(1) \/ Run(2)

SpecTwice == InitTwice /\ [][NextTwice]_vars

----------------------------------------------------------------------------
(* Claims about the text field parsers (SpecParse) *)

\* The (date, url) pairs of the hyperlinks among the tokens.
SamplePairs == { << D1, U1 >>, << D2, U2 >> }

\* Whether s starts with the characters of prefix.
StartsWith(s, prefix) == HasAt(s, 1, prefix)

\* C1, as stated: parse_sphinx_resolution of a date followed by a URL in
\* angle brackets, such as 01-Jan-2020 <http://x>, returns that date and
\* that URL.
C1_PlainFormParsed ==
    \A p \in SamplePairs :
        ("resolution" \in called /\ text = Plain(p[1], p[2]))
            => resolution_data = [date |-> p[1], url |-> p[2]]

\* C1, amended: parse_sphinx_resolution of a string that starts with a Sphinx
\* hyperlink (a backquote, the date, a space, the URL in angle brackets, a
\* backquote and two underscores) returns that date and that URL, whatever
\* follows the hyperlink; of the same date and URL in angle brackets without
\* the backquotes and underscores it returns None.
C1_HyperlinkParsed ==
    "resolution" \in called =>
        \A p \in SamplePairs :
            /\ StartsWith(text, Hyperlink(p[1], p[2]))
                   => resolution_data = [date |-> p[1], url |-> p[2]]
            /\ text = Plain(p[1], p[2]) => resolution_data = None

\* C1: a hyperlink followed by more text has been parsed.
C1_Witness ==
    /\ "resolution" \in called
    /\ StartsWith(text, Hyperlink(D1, U1))
    /\ Len(text) > Len(Hyperlink(D1, U1))
    /\ resolution_data = [date |-> D1, url |-> U1]

\* The entries a list of (date, url) pairs stands for.
PairEntries(ps) == [k \in 1..Len(ps) |-> [date |-> ps[k][1], url |-> ps[k][2]]]
DateEntries(ps) == [k \in 1..Len(ps) |-> [date |-> ps[k][1]]]

\* The lists of one to three (date, url) pairs.
PairLists == UNION {[1..n -> SamplePairs] : n \in 1..3}

\* The entries of ps, written with the operator form, joined by sep.
RECURSIVE Joined(_, _, _)
Joined(form(_, _), ps, sep) ==
    IF Len(ps) = 1 THEN form(ps[1][1], ps[1][2])
    ELSE form(ps[1][1], ps[1][2]) \o sep \o Joined(form, Tail(ps), sep)

\* C2, as stated: parse_sphinx_post_history of dates followed by a URL in
\* angle brackets, such as 01-Jan-2020 <http://x>, 02-Feb-2021 <http://y>,
\* returns one entry per occurrence, in order, each with its date and url.
C2_PlainEntriesParsed ==
    \A ps \in PairLists :
        ("post_history" \in called /\ text = Joined(Plain, ps, CommaSpace))
            => post_history_data = PairEntries(ps)

\* C2, amended: parse_sphinx_post_history of Sphinx hyperlinks (each a
\* backquote, the date, a space, the URL in angle brackets, a backquote and
\* two underscores), one after the other or separated by ", ", returns one
\* entry per hyperlink, in textual order, each with its date and its url; of
\* the same dates and URLs without the backquotes and underscores it returns
\* one entry per date, in order, with the date only.
C2_HyperlinkEntriesParsed ==
    "post_history" \in called =>
        \A ps \in PairLists :
            /\ text \in {Joined(Hyperlink, ps, CommaSpace), Joined(Hyperlink, ps, << >>)}
                   => post_history_data = PairEntries(ps)
            /\ text = Joined(Plain, ps, CommaSpace)
                   => post_history_data = DateEntries(ps)

\* C2: two different hyperlinks separated by ", " have been parsed.
C2_Witness ==
    /\ "post_history" \in called
    /\ text = Hyperlink(D1, U1) \o CommaSpace \o Hyperlink(D2, U2)
    /\ post_history_data = << [date |-> D1, url |-> U1], [date |-> D2, url |-> U2] >>

----------------------------------------------------------------------------
(* Claims about one conversion (Spec) *)

\* The instance graph and the feed of the first run.
G1 == instance_data_graph[1]
Feed1 == json_data[1]

\* create_instance_data has ended without an exception.
Completed(r) == pc[r] \in {"instances", "done"} /\ idx[r] = Len(json_data[r])

\* The triples of g with subject s and predicate p, and their objects.
Outgoing(g, s, p) == {t \in g : t[1] = s /\ t[2] = p}
Objects(g, s, p) == {t[3] : t \in Outgoing(g, s, p)}

\* The nodes of g that are typed with the class class of the schema.
Typed(g, class) == {t[1] : t \in {u \in g : u[2] = RDF_type /\ u[3] = SCHEMA_NS(class)}}

\* C3: once create_instance_data has ended, the instance graph holds as many
\* (proposal, rdf:type, PythonEnhancementProposal) triples as the feed has
\* records (the feed is keyed by number, so no number recurs).
C3_TypeCountIsRecordCount ==
    Completed(1) =>
        Cardinality({t \in G1 : t[2] = RDF_type
                                /\ t[3] = SCHEMA_NS("PythonEnhancementProposal")})
            = Len(Feed1)

\* C3: a feed of at least two records has been converted.
C3_Witness == pc[1] = "done" /\ Len(Feed1) >= 2 /\ Cardinality(Typed(G1, "PythonEnhancementProposal")) >= 2

\* The names of the authors field, as the claim counts them.
AuthorNames(pep_data) == Split(pep_data.authors, CommaSpace)

\* C4, as stated: a processed record whose authors field holds N names
\* separated by ", " has exactly N hasAuthor triples and N author entities.
C4_OneAuthorPerName ==
    \A k \in 1..idx[1] :
        Truthy(Feed1[k].authors) =>
            /\ Cardinality(Outgoing(G1, RecordUri(Feed1[k]), SCHEMA_NS("hasAuthor")))
                   = Len(AuthorNames(Feed1[k]))
            /\ Cardinality(Objects(G1, RecordUri(Feed1[k]), SCHEMA_NS("hasAuthor"))
                             \cap Typed(G1, "Author"))
                   = Len(AuthorNames(Feed1[k]))

\* C4, amended: a processed record whose authors field holds N pairwise
\* different names separated by ", " has exactly N hasAuthor triples, to N
\* different nodes, each typed Author and labelled with exactly one label, its
\* name (a name written twice in one field counts once); and after the whole
\* feed the graph holds one Author node per different name of the feed, so a
\* name that recurs in another record adds no node, type or label.
C4_OneAuthorPerDistinctName ==
    /\ \A k \in 1..idx[1] :
        Truthy(Feed1[k].authors) =>
            LET names == Range(AuthorNames(Feed1[k]))
                links == Outgoing(G1, RecordUri(Feed1[k]), SCHEMA_NS("hasAuthor"))
            IN  /\ Cardinality(links) = Cardinality(names)
                /\ \A t \in links :
                      /\ t[3] \in Typed(G1, "Author")
                      /\ \E name \in names :
                            Objects(G1, t[3], RDFS_label) = {Literal(name, "")}
                /\ \A name \in names : \E t \in links :
                      Objects(G1, t[3], RDFS_label) = {Literal(name, "")}
    /\ Completed(1) =>
        Cardinality(Typed(G1, "Author"))
            = Cardinality(UNION {Range(AuthorNames(Feed1[k])) :
                    k \in {j \in 1..Len(Feed1) : Truthy(Feed1[j].authors)}})

\* C4: two records that share an author have been processed, one with two
\* names, and the graph holds two Author nodes.
C4_Witness ==
    /\ pc[1] = "done"
    /\ \E i, j \in 1..Len(Feed1) :
        /\ i # j
        /\ Truthy(Feed1[i].authors) /\ Truthy(Feed1[j].authors)
        /\ Len(AuthorNames(Feed1[i])) = 2
        /\ Range(AuthorNames(Feed1[j])) \subseteq Range(AuthorNames(Feed1[i]))
    /\ Cardinality(Typed(G1, "Author")) = 2

\* A date of the record that its parser hands to strptime and strptime
\* rejects: the creation date, the date of the resolution, the date of a post.
BadCreated(pep_data) ==
    Truthy(pep_data.created) /\ ~strptime(pep_data.created).ok

BadResolutionDate(pep_data) ==
    /\ Truthy(pep_data.resolution)
    /\ "date" \in DOMAIN parse_sphinx_resolution(pep_data.resolution)
    /\ ~strptime(parse_sphinx_resolution(pep_data.resolution).date).ok

BadPostDate(pep_data) ==
    /\ Truthy(pep_data.post_history)
    /\ \E k \in DOMAIN parse_sphinx_post_history(pep_data.post_history) :
          ~strptime(parse_sphinx_post_history(pep_data.post_history)[k].date).ok

BadDate(pep_data) ==
    BadCreated(pep_data) \/ BadResolutionDate(pep_data) \/ BadPostDate(pep_data)

\* C7: a record with a creation date, a resolution date or a post date that
\* strptime rejects never ends its loop body: the run does not complete, and
\* when it stops at that record (whose python_version key is there) it has
\* stopped with the ValueError of the parse.
C7_BadDateAborts ==
    \A k \in 1..Len(Feed1) :
        BadDate(Feed1[k]) =>
            /\ idx[1] < k
            /\ pc[1] # "done"
            /\ (pc[1] = "aborted" /\ idx[1] = k - 1 /\ Feed1[k].python_version # Absent)
                   => err[1] = "ValueError"

\* C7: the run has stopped with a ValueError at a record whose creation date
\* is invalid-date, and the graph holds no creation date for it.
C7_Witness ==
    /\ pc[1] = "aborted"
    /\ err[1] = "ValueError"
    /\ Feed1[idx[1] + 1].created = InvalidDate
    /\ Outgoing(G1, RecordUri(Feed1[idx[1] + 1]), SCHEMA_NS("dateCreated")) = {}

\* C8, as stated: a record whose python_version is missing or null does not
\* stop the run, and the graph holds no pythonVersion triple of it.
C8_AbsentVersionOmitted ==
    \A k \in 1..Len(Feed1) :
        Feed1[k].python_version \in {Absent, Null} =>
            /\ ~(pc[1] = "aborted" /\ idx[1] = k - 1 /\ err[1] = "KeyError")
            /\ Outgoing(G1, RecordUri(Feed1[k]), SCHEMA_NS("pythonVersion")) = {}

\* C9, as stated: a processed record with a topic field has exactly one topic
\* triple per non-empty stripped piece of the field, and none for an empty one.
C9_NonemptyTopicsOnly ==
    \A k \in 1..idx[1] :
        Truthy(Feed1[k].topic) =>
            Objects(G1, RecordUri(Feed1[k]), SCHEMA_NS("topic"))
                = {Literal(Strip(piece), "") :
                     piece \in {q \in Range(Split(Feed1[k].topic, << "," >>)) :
                                  Strip(q) # << >>}}

\* The proposal URI pep-{id} of the characters id.
ExpectedPepUri(id) == << "default:", "p", "e", "p", "-" >> \o id

\* The stripped pieces of a comma-separated field.
StrippedPieces(field) == {Strip(piece) : piece \in Range(Split(field, << "," >>))}

\* The links of property from the k-th record are the pep-{id} of the
\* stripped pieces of field, one per different piece.
LinksAre(k, property, field) ==
    /\ Objects(G1, RecordUri(Feed1[k]), SCHEMA_NS(property))
           = {ExpectedPepUri(id) : id \in StrippedPieces(field)}
    /\ Cardinality(Outgoing(G1, RecordUri(Feed1[k]), SCHEMA_NS(property)))
           = Cardinality(StrippedPieces(field))

\* C10: a processed record with a replaces (requires) field has exactly one
\* replaces (requires) link per stripped piece of the field, to pep-{id} of
\* that piece, whether a record with that number is in the feed or not: the
\* link to a number of the feed points at the node typed as that proposal,
\* the link to any other number at a node without a type.
C10_OneLinkPerPiece ==
    /\ \A k \in 1..idx[1] :
        /\ Truthy(Feed1[k].replaces) => LinksAre(k, "replaces", Feed1[k].replaces)
        /\ Truthy(Feed1[k].requires) => LinksAre(k, "requires", Feed1[k].requires)
    /\ Completed(1) =>
        \A k \in 1..Len(Feed1) : \A property \in {"replaces", "requires"} :
            \A o \in Objects(G1, RecordUri(Feed1[k]), SCHEMA_NS(property)) :
                o \in Typed(G1, "PythonEnhancementProposal")
                    <=> \E j \in 1..Len(Feed1) : o = ExpectedPepUri(IntToStr(Feed1[j].number))

\* C10: a record that replaces "2, 10" has been converted in a feed that has
\* a record 2 and no record 10, and it has exactly the two links.
C10_Witness ==
    /\ pc[1] = "done"
    /\ Len(Feed1) = 2
    /\ \E k \in 1..Len(Feed1) :
        /\ Feed1[k].replaces = << "2", ",", " ", "1", "0" >>
        /\ Objects(G1, RecordUri(Feed1[k]), SCHEMA_NS("replaces"))
               = {ExpectedPepUri(<< "2" >>), ExpectedPepUri(<< "1", "0" >>)}
        /\ ExpectedPepUri(<< "2" >>) \in Typed(G1, "PythonEnhancementProposal")
        /\ ExpectedPepUri(<< "1", "0" >>) \notin Typed(G1, "PythonEnhancementProposal")

----------------------------------------------------------------------------
(* Claims about two conversions of the same records (SpecTwice) *)

\* The blank nodes of a graph, and its triples without a blank node.
BNodesOf(g) ==
    {t[1] : t \in {u \in g : IsBNode(u[1])}} \cup {t[3] : t \in {u \in g : IsBNode(u[3])}}
Ground(g) == {t \in g : ~IsBNode(t[1]) /\ ~IsBNode(t[3])}

\* What a graph says about a blank node: the links to it and its properties.
\* No triple of the instance graph joins two blank nodes.
Description(g, node) ==
    [incoming |-> {<< t[1], t[2] >> : t \in {u \in g : u[3] = node}},
     outgoing |-> {<< t[2], t[3] >> : t \in {u \in g : u[1] = node}}]

\* How many blank nodes of g have each description.
BNodeBag(g) ==
    [d \in {Description(g, node) : node \in BNodesOf(g)} |->
        Cardinality({node \in BNodesOf(g) : Description(g, node) = d})]

\* Two graphs that differ at most in the identifiers of their blank nodes.
SameContent(g, h) == Ground(g) = Ground(h) /\ BNodeBag(g) = BNodeBag(h)

BothDone == pc[1] = "done" /\ pc[2] = "done"

\* C5, as stated: two conversions of the same records in the same order end
\* with the same triples in the schema graphs and in the instance graphs, the
\* triples of the Resolution and Post nodes included.
C5_SameTriples ==
    (BothDone /\ json_data[2] = json_data[1]) =>
        /\ schema_graph[1] = schema_graph[2]
        /\ instance_data_graph[1] = instance_data_graph[2]

\* C5, amended: two conversions of the same records in the same order end
\* with the same triples in the schema graphs, and with instance graphs that
\* hold the same triples but for the identifiers of the blank Resolution and
\* Post nodes: the triples without a blank node are the same, and the blank
\* nodes of the two graphs match one to one in their links and properties.
C5_SameTriplesButBNodes ==
    (BothDone /\ json_data[2] = json_data[1]) =>
        /\ schema_graph[1] = schema_graph[2]
        /\ SameContent(instance_data_graph[1], instance_data_graph[2])

\* C5: both conversions of a feed in the same order have ended, with blank
\* nodes in their graphs.
C5_Witness ==
    /\ BothDone
    /\ json_data[2] = json_data[1]
    /\ Cardinality(BNodesOf(instance_data_graph[1])) >= 2
    /\ Cardinality(BNodesOf(instance_data_graph[2])) >= 2

\* C6: a conversion of the same records in any other order ends as the first
\* one did, completed or stopped by an exception, and when both complete the
\* two instance graphs have the same content (the same triples but for the
\* identifiers of the blank nodes).
C6_OrderInsensitive ==
    (pc[1] \in {"done", "aborted"} /\ pc[2] \in {"done", "aborted"}) =>
        /\ pc[2] = pc[1]
        /\ BothDone => SameContent(instance_data_graph[1], instance_data_graph[2])

\* C6: two records, one of which links to the other, have been converted in
\* both orders.
C6_Witness ==
    /\ BothDone
    /\ Len(json_data[1]) = 2
    /\ json_data[2] # json_data[1]
    /\ \E k \in 1..2 : Truthy(json_data[1][k].replaces)
    /\ instance_data_graph[1] # {}

----------------------------------------------------------------------------
(* Further claims about the text field parsers (SpecParse) *)

\* The two schemes of an absolute URL.
Schemes == { << "h", "t", "t", "p", ":", "/", "/" >>,
             << "h", "t", "t", "p", "s", ":", "/", "/" >> }

\* A bare absolute URL: a scheme, at least one more character, no whitespace.
BareUrl(s) ==
    /\ \E p \in Schemes : StartsWith(s, p) /\ Len(s) > Len(p)
    /\ \A k \in 1..Len(s) : s[k] \notin Whitespace

\* C11: parse_sphinx_resolution of a bare absolute URL that starts with
\* http:// or https:// returns that URL and no date; of a string that starts
\* neither with a backquote nor with http (the empty string, see ..., a date
\* alone) it returns None; and when the string starts with a Sphinx hyperlink
\* the hyperlink is what is returned, even though its text holds an URL.
C11_BareUrlOrNone ==
    "resolution" \in called =>
        /\ BareUrl(text) => resolution_data = [url |-> text]
        /\ (~StartsWith(text, << Backtick >>)
            /\ ~StartsWith(text, << "h", "t", "t", "p" >>))
               => resolution_data = None
        /\ \A p \in SamplePairs :
               StartsWith(text, Hyperlink(p[1], p[2]))
                   => DOMAIN resolution_data = {"date", "url"}

\* C11: a bare https URL has been parsed into a url without a date.
C11_Witness ==
    /\ "resolution" \in called
    /\ text = U2
    /\ resolution_data = [url |-> U2]
    /\ "date" \notin DOMAIN resolution_data

\* A date written without anything around it.
DateAlone(date, url) == date

\* What stands between two dates of a history without hyperlinks.
DateSeparators == { CommaSpace, << >>, See }

\* C12: parse_sphinx_post_history of a string without hyperlinks returns one
\* entry with the date only for every occurrence of the date pattern, in
\* textual order (01-Jan-2020, 02-Feb-2021 gives two of them), and the empty
\* list when the string holds no date at all, the empty string included.
C12_DateOnlyEntries ==
    "post_history" \in called =>
        /\ \A ps \in PairLists : \A sep \in DateSeparators :
               text = Joined(DateAlone, ps, sep)
                   => post_history_data = DateEntries(ps)
        /\ (\A k \in 1..Len(text) : ~IsDigit(text[k]))
               => post_history_data = << >>

\* C12: two dates separated by ", " have been parsed into two entries that
\* hold the date only.
C12_Witness ==
    /\ "post_history" \in called
    /\ text = D1 \o CommaSpace \o D2
    /\ post_history_data = << [date |-> D1], [date |-> D2] >>

----------------------------------------------------------------------------
(* Further claims about one conversion (Spec) *)

\* Whether a term is a term of the schema namespace.
IsSchemaTerm(term) == term[1] = "peps:"

\* The objects a declaration of a class or of a property has.
DeclarationKinds == {OWL_Class, OWL_DatatypeProperty, OWL_ObjectProperty}

\* C13: at every point of the conversion, and so after it, the two graphs
\* are disjoint in kind.  No triple of the instance graph has a schema term
\* as its subject, declares a class or a property, or gives a comment, a
\* domain or a range; every triple of the schema graph has a schema term as
\* its subject, uses no property of the schema as its predicate and types
\* nothing as a Proposal, Author, Resolution or Post; the graphs share no
\* triple.
C13_GraphsDisjointInKind ==
    /\ \A t \in G1 :
           /\ ~IsSchemaTerm(t[1])
           /\ t[3] \notin DeclarationKinds
           /\ t[2] \notin {RDFS_comment, RDFS_domain, RDFS_range}
    /\ \A t \in schema_graph[1] :
           /\ IsSchemaTerm(t[1])
           /\ ~IsSchemaTerm(t[2])
           /\ t[2] = RDF_type => t[3] \in DeclarationKinds
    /\ G1 \cap schema_graph[1] = {}

\* C13: a conversion has returned a schema graph and an instance graph that
\* both hold labels, those of the schema on schema terms and those of the
\* instance graph on instances.
C13_Witness ==
    /\ pc[1] = "done"
    /\ Len(Feed1) = MaxRecords
    /\ \E t \in schema_graph[1] : t[2] = RDFS_label
    /\ \E t \in G1 : t[2] = RDFS_label /\ t[1][1] = "default:"
    /\ \E t \in G1 : t[2] = RDF_type /\ t[3] = SCHEMA_NS("Author")

----------------------------------------------------------------------------
(* Totality of the parsers (SpecParse) *)

\* Whether the characters of sub occur, one after the other, somewhere in s.
Occurs(sub, s) == \E i \in 1..Len(s) : HasAt(s, i, sub)

\* A date an entry may hold: eleven characters of the text.
DateOfText(date, s) == Len(date) = 11 /\ Occurs(date, s)

\* A hyperlink that has lost its end.
BrokenHyperlink == << Backtick >> \o D1 \o << " ", "<" >>

\* C14: whatever string a parser is given, the empty string and malformed
\* text included, it returns and what it returns is the no-data result or
\* parsed data.  parse_sphinx_resolution returns None, or a url that is the
\* string, or a date and a nonempty url that both occur in the string;
\* parse_sphinx_post_history returns a list, empty or not, whose entries
\* hold a date of the string and at most a url of the string besides.  Of
\* the empty string they return None and the empty list.
C14_ParsersTotal ==
    /\ "resolution" \in called =>
           /\ \/ resolution_data = None
              \/ resolution_data = [url |-> text]
              \/ /\ DOMAIN resolution_data = {"date", "url"}
                 /\ DateOfText(resolution_data.date, text)
                 /\ resolution_data.url # << >>
                 /\ Occurs(resolution_data.url, text)
           /\ text = << >> => resolution_data = None
    /\ "post_history" \in called =>
           /\ \A k \in 1..Len(post_history_data) :
                  /\ DOMAIN post_history_data[k] \in {{"date"}, {"date", "url"}}
                  /\ DateOfText(post_history_data[k].date, text)
                  /\ "url" \in DOMAIN post_history_data[k] =>
                         /\ post_history_data[k].url # << >>
                         /\ Occurs(post_history_data[k].url, text)
           /\ text = << >> => post_history_data = << >>

\* C14: both parsers have returned on malformed text, a hyperlink without
\* its end followed by a word: no data from the one, the date alone from the
\* other.
C14_Witness ==
    /\ called = {"resolution", "post_history"}
    /\ text = BrokenHyperlink \o See
    /\ resolution_data = None
    /\ post_history_data = << [date |-> D1] >>

----------------------------------------------------------------------------
(* What a conversion delivers (Spec) *)

\* C15: a run whose feed holds a record with a date the strict parse
\* rejects returns nothing: convert_peps_to_rdf raises, so its caller gets
\* neither graph, and the instance graph that holds the triples added before
\* the exception is never a result.  What a run does return is the schema
\* graph and the instance graph built from all the records of the feed.
C15_NoPartialOutput ==
    /\ returned[1] = NoResult \/ ~\E k \in 1..Len(Feed1) : BadDate(Feed1[k])
    /\ pc[1] = "aborted" => returned[1] = NoResult
    /\ returned[1] # NoResult =>
           /\ pc[1] = "done"
           /\ idx[1] = Len(Feed1)
           /\ returned[1] = << schema_graph[1], G1 >>
           /\ \A k \in 1..Len(Feed1) :
                  << RecordUri(Feed1[k]), RDF_type, PEP >> \in returned[1][2]

\* C15: the run has stopped at a record with a bad date after a record it
\* had completed; the instance graph holds the triples of the first record
\* and the first triples of the second, and nothing has been returned.
C15_Witness ==
    /\ pc[1] = "aborted"
    /\ err[1] = "ValueError"
    /\ idx[1] = 1
    /\ BadDate(Feed1[2])
    /\ << RecordUri(Feed1[1]), RDF_type, PEP >> \in G1
    /\ << RecordUri(Feed1[2]), RDF_type, PEP >> \in G1
    /\ returned[1] = NoResult

\* The schema graph of the run, once both definition steps have been taken.
SchemaBuilt == pc[1] \in {"instances", "done", "aborted"}

\* The classes and the properties a graph declares.
DeclaredClasses(g) == {t[1] : t \in {u \in g : u[2] = RDF_type /\ u[3] = OWL_Class}}
DeclaredProperties(g) ==
    {t[1] : t \in {u \in g : /\ u[2] = RDF_type
                             /\ u[3] \in {OWL_DatatypeProperty, OWL_ObjectProperty}}}

\* The names of the properties that peps_to_rdf.py lists: those of a
\* proposal, of a resolution and of a post.
PropertyNames ==
    { "id", "url", "title", "hasAuthor", "dateCreated", "status", "type",
      "pythonVersion", "requires", "replaces", "supersededBy", "discussionsTo",
      "topic", "hasResolution", "hasPost",
      "resolutionUrl", "resolutionDate", "postUrl", "postDate" }

\* The four classes.
ClassTerms == { SCHEMA_NS("PythonEnhancementProposal"), SCHEMA_NS("Author"),
                SCHEMA_NS("Resolution"), SCHEMA_NS("Post") }

\* C16: the schema graph that define_classes and define_properties build
\* declares the four classes PythonEnhancementProposal, Author, Resolution
\* and Post and no other; every property it declares has one kind, one
\* domain and one range, and its kind is ObjectProperty if and only if its
\* range is one of the declared classes, DatatypeProperty otherwise; the
\* properties are the listed ones and nothing else has a domain or a range.
C16_SchemaWellFormed ==
    SchemaBuilt =>
        \A g \in {schema_graph[1]} :
        \A classes \in {DeclaredClasses(g)} :
        \A kinds \in {{t \in g : /\ t[2] = RDF_type
                                 /\ t[3] \in {OWL_DatatypeProperty, OWL_ObjectProperty}}} :
        \A domains \in {{t \in g : t[2] = RDFS_domain}} :
        \A ranges \in {{t \in g : t[2] = RDFS_range}} :
        \A properties \in {{SCHEMA_NS(n) : n \in PropertyNames}} :
            /\ classes = ClassTerms
            \* every listed property, and nothing else, has a kind, a domain
            \* and a range, and has one of each
            /\ {t[1] : t \in kinds} = properties
            /\ {t[1] : t \in domains} = properties
            /\ {t[1] : t \in ranges} = properties
            /\ Cardinality(kinds) = Cardinality(properties)
            /\ Cardinality(domains) = Cardinality(properties)
            /\ Cardinality(ranges) = Cardinality(properties)
            /\ \A t \in domains : t[3] \in classes
            \* the kind follows the range
            /\ \A t \in ranges :
                   /\ << t[1], RDF_type, OWL_ObjectProperty >> \in g <=> t[3] \in classes
                   /\ << t[1], RDF_type, OWL_DatatypeProperty >> \in g <=> t[3] \notin classes

\* C16: the schema has been built and holds a property of each kind, hasPost
\* whose range is the class Post and postDate whose range is a date.
C16_Witness ==
    /\ SchemaBuilt
    /\ << SCHEMA_NS("hasPost"), RDF_type, OWL_ObjectProperty >> \in schema_graph[1]
    /\ << SCHEMA_NS("hasPost"), RDFS_range, SCHEMA_NS("Post") >> \in schema_graph[1]
    /\ << SCHEMA_NS("postDate"), RDF_type, OWL_DatatypeProperty >> \in schema_graph[1]
    /\ << SCHEMA_NS("postDate"), RDFS_range, XSD("date") >> \in schema_graph[1]

----------------------------------------------------------------------------
(* Resolution and Post entities (Spec) *)

\* What the resolution parser returns for a record, None when the record has
\* no resolution.
ResolutionOf(pep_data) ==
    IF Truthy(pep_data.resolution)
    THEN parse_sphinx_resolution(pep_data.resolution)
    ELSE None

\* The nodes that hasResolution links a record to.
ResolutionNodes(pep_data) ==
    Objects(G1, RecordUri(pep_data), SCHEMA_NS("hasResolution"))

\* C17: no record is ever linked to more than one Resolution entity, and
\* every Resolution entity is linked from a record.  A record whose loop body
\* has ended has exactly one, typed Resolution, when it has a resolution and
\* the parser has returned data for it; the entity has the url of the parser
\* result as its only resolutionUrl if the result has a url and no
\* resolutionUrl otherwise, and one resolutionDate if the result has a date
\* and none otherwise.  A record without resolution, or with a resolution
\* for which the parser returns None, has no hasResolution triple.
C17_OneResolutionPerData ==
    /\ \A k \in 1..Len(Feed1) : Cardinality(ResolutionNodes(Feed1[k])) <= 1
    /\ Typed(G1, "Resolution") = UNION {ResolutionNodes(Feed1[k]) : k \in 1..Len(Feed1)}
    /\ \A k \in 1..idx[1] :
           \A data \in {ResolutionOf(Feed1[k])} :
           \A nodes \in {ResolutionNodes(Feed1[k])} :
               IF data = None THEN nodes = {}
               ELSE /\ Cardinality(nodes) = 1
                    /\ nodes \subseteq Typed(G1, "Resolution")
                    /\ \A node \in nodes :
                           /\ Objects(G1, node, SCHEMA_NS("resolutionUrl"))
                                  = IF "url" \in DOMAIN data
                                    THEN {Literal(data.url, "anyURI")}
                                    ELSE {}
                           /\ Cardinality(Objects(G1, node, SCHEMA_NS("resolutionDate")))
                                  = IF "date" \in DOMAIN data THEN 1 ELSE 0

\* C17: a run has ended with a record whose resolution is a hyperlink, which
\* has its Resolution entity with url and date, and a record whose
\* resolution the parser returns None for, which has none.
C17_Witness ==
    /\ pc[1] = "done"
    /\ \E k, j \in 1..Len(Feed1) :
           /\ Feed1[k].resolution = Hyperlink(D1, U1)
           /\ \E node \in ResolutionNodes(Feed1[k]) :
                  /\ << node, SCHEMA_NS("resolutionUrl"), Literal(U1, "anyURI") >> \in G1
                  /\ Objects(G1, node, SCHEMA_NS("resolutionDate")) # {}
           /\ Feed1[j].resolution = Plain(D1, U1)
           /\ ResolutionNodes(Feed1[j]) = {}
    /\ Cardinality(Typed(G1, "Resolution")) = 1

\* What the post-history parser returns for a record, the empty list when the
\* record has no post_history.
PostsOf(pep_data) ==
    IF Truthy(pep_data.post_history)
    THEN parse_sphinx_post_history(pep_data.post_history)
    ELSE << >>

\* The nodes that hasPost links a record to.
PostNodes(pep_data) == Objects(G1, RecordUri(pep_data), SCHEMA_NS("hasPost"))

\* Whether node carries what the entry post says: the url of the entry as
\* its only postUrl, or no postUrl when the entry has no url.
CarriesPost(node, post) ==
    Objects(G1, node, SCHEMA_NS("postUrl"))
        = IF "url" \in DOMAIN post THEN {Literal(post.url, "anyURI")} ELSE {}

\* C18: a record whose loop body has ended is linked by hasPost to as many
\* nodes as the post-history parser has returned entries for it, two entries
\* with the same date and url counting twice; every such node is typed Post
\* and has exactly one postDate, and the nodes match the entries one to one,
\* a node having the url of its entry as its only postUrl, or no postUrl
\* when the entry has no url.  A record without post_history has no hasPost
\* triple, and every Post entity is linked from a record.
C18_OnePostPerEntry ==
    /\ Typed(G1, "Post") = UNION {PostNodes(Feed1[k]) : k \in 1..Len(Feed1)}
    /\ \A k \in 1..idx[1] :
           \A posts \in {PostsOf(Feed1[k])} :
           \A nodes \in {PostNodes(Feed1[k])} :
               /\ Cardinality(nodes) = Len(posts)
               /\ \A node \in nodes :
                      Cardinality(Objects(G1, node, SCHEMA_NS("postDate"))) = 1
               /\ \E f \in [1..Len(posts) -> nodes] :
                      /\ \A i, j \in 1..Len(posts) : f[i] = f[j] => i = j
                      /\ \A i \in 1..Len(posts) : CarriesPost(f[i], posts[i])

\* C18: a run has ended with a record whose post history holds the same
\* hyperlink twice and a date without hyperlink: the record has two Post
\* entities, both with the url of the hyperlink.
C18_Witness ==
    /\ pc[1] = "done"
    /\ \E k \in 1..Len(Feed1) :
           /\ Feed1[k].post_history
                  = Hyperlink(D1, U1) \o Hyperlink(D1, U1) \o CommaSpace \o D2
           /\ Cardinality(PostNodes(Feed1[k])) = 2
           /\ \A node \in PostNodes(Feed1[k]) :
                  /\ node \in Typed(G1, "Post")
                  /\ << node, SCHEMA_NS("postUrl"), Literal(U1, "anyURI") >> \in G1

----------------------------------------------------------------------------
(* Homogeneity of the post history (SpecParse) *)

\* The dates among the tokens.
SampleDates == {D1, D2}

\* C19: the entries parse_sphinx_post_history returns are all of one kind,
\* either each with date and url or each with the date only.  When the
\* string holds a hyperlink, every entry has a url: a date that stands
\* before or after the hyperlink without being part of one gives no entry,
\* so that a hyperlink with one such date, or with one on either side,
\* returns the entry of the hyperlink alone.
C19_Homogeneous ==
    "post_history" \in called =>
        /\ \/ \A k \in 1..Len(post_history_data) :
                  DOMAIN post_history_data[k] = {"date", "url"}
           \/ \A k \in 1..Len(post_history_data) :
                  DOMAIN post_history_data[k] = {"date"}
        /\ \A p \in SamplePairs :
               /\ Occurs(Hyperlink(p[1], p[2]), text) =>
                      /\ post_history_data # << >>
                      /\ \A k \in 1..Len(post_history_data) :
                             "url" \in DOMAIN post_history_data[k]
               /\ \A d, e \in SampleDates :
                      text \in { Hyperlink(p[1], p[2]) \o CommaSpace \o d,
                                 d \o CommaSpace \o Hyperlink(p[1], p[2]),
                                 d \o Hyperlink(p[1], p[2]) \o e }
                          => post_history_data = << [date |-> p[1], url |-> p[2]] >>

\* C19: a date followed by ", " and a hyperlink has been parsed into the
\* entry of the hyperlink alone.
C19_Witness ==
    /\ "post_history" \in called
    /\ text = D2 \o CommaSpace \o Hyperlink(D1, U1)
    /\ post_history_data = << [date |-> D1, url |-> U1] >>

----------------------------------------------------------------------------
(* Typing of the nodes that are linked to (Spec) *)

\* A node of the instance data: a URI of the instance namespace or a blank
\* node, as opposed to a literal or a term of the schema.
IsInstanceNode(term) == term[1] \in {"default:", "_:"}

\* Whether the graph says of what type the node is.
HasType(g, node) == \E t \in g : t[1] = node /\ t[2] = RDF_type

\* The triples of the graph that point at the node.
Incoming(g, node) == {t \in g : t[3] = node}

\* The links between proposals.
ProposalLinks == { SCHEMA_NS("requires"), SCHEMA_NS("replaces"),
                   SCHEMA_NS("supersededBy") }

\* C20: whenever the loop of create_instance_data has ended a record, or has
\* stopped within one, every object of a hasAuthor triple is typed Author,
\* every object of a hasResolution triple is typed Resolution and every
\* object of a hasPost triple is typed Post; every node typed Resolution or
\* Post is the object of exactly one triple, a hasResolution or a hasPost
\* triple, so that no two proposals share one; and a triple that points at a
\* node of the instance data that has no type is a requires, replaces or
\* supersededBy triple.
C20_LinkedNodesTyped ==
    /\ \A t \in G1 :
           /\ t[2] = SCHEMA_NS("hasAuthor") => t[3] \in Typed(G1, "Author")
           /\ t[2] = SCHEMA_NS("hasResolution") => t[3] \in Typed(G1, "Resolution")
           /\ t[2] = SCHEMA_NS("hasPost") => t[3] \in Typed(G1, "Post")
           /\ (IsInstanceNode(t[3]) /\ ~HasType(G1, t[3])) => t[2] \in ProposalLinks
    /\ \A node \in Typed(G1, "Resolution") :
           /\ Cardinality(Incoming(G1, node)) = 1
           /\ \A t \in Incoming(G1, node) : t[2] = SCHEMA_NS("hasResolution")
    /\ \A node \in Typed(G1, "Post") :
           /\ Cardinality(Incoming(G1, node)) = 1
           /\ \A t \in Incoming(G1, node) : t[2] = SCHEMA_NS("hasPost")

\* C20: a run has ended with two records, one that replaces a proposal the
\* feed does not hold, which is pointed at without a type, and one with two
\* posts, each on a node of its own that is typed Post.
C20_Witness ==
    /\ pc[1] = "done"
    /\ Len(Feed1) = 2
    /\ \E t \in G1 : t[2] = SCHEMA_NS("replaces") /\ ~HasType(G1, t[3])
    /\ Cardinality(Typed(G1, "Post")) = 2
    /\ \A node \in Typed(G1, "Post") : Cardinality(Incoming(G1, node)) = 1

----------------------------------------------------------------------------
(* The bare-URL branch of parse_sphinx_resolution (SpecParse) *)

\* The URLs among the tokens.
SampleUrls == {U1, U2}

\* Whether s starts with a scheme and one character that is no whitespace,
\* whatever comes after them.
StartsWithUrl(s) ==
    \E p \in Schemes :
        StartsWith(s, p) /\ Len(s) > Len(p) /\ s[Len(p) + 1] \notin Whitespace

\* C21: when the string does not start with a hyperlink and starts with
\* http:// or https:// and a character that is no whitespace, the url
\* parse_sphinx_resolution returns is the whole string, with the whitespace
\* and the text that follow the URL, and there is no date; when the URL
\* stands later in the string, after a word, a date, a comma or a space, the
\* result is None.
C21_WholeStringAsUrl ==
    "resolution" \in called =>
        /\ StartsWithUrl(text) => resolution_data = [url |-> text]
        /\ \A u \in SampleUrls :
               /\ StartsWith(text, u \o CommaSpace \o See)
                      => /\ resolution_data.url = text
                         /\ Len(resolution_data.url) > Len(u)
               /\ (/\ Occurs(u, text)
                   /\ ~StartsWith(text, u)
                   /\ ~StartsWith(text, << Backtick >>)
                   /\ ~StartsWithUrl(text))
                      => resolution_data = None

\* C21: a URL followed by ", " and a word has been parsed into a url that is
\* the whole string.
C21_Witness ==
    /\ "resolution" \in called
    /\ text = U1 \o CommaSpace \o See
    /\ resolution_data = [url |-> U1 \o CommaSpace \o See]

====
